---- MODULE Spec2Model ----
(***************************************************************************)
(* Model of the TMC5160 stepper driver crate: the register catalog         *)
(* (src/src/registers.rs) and the transaction engine (src/src/lib.rs).     *)
(*                                                                         *)
(* A u32 is the set of its one bits (a subset of 0..31), so that every     *)
(* 32-bit word is representable; a u8 and every register field is a        *)
(* natural number; a [u8; 4] buffer is a sequence of four bytes.           *)
(***************************************************************************)
EXTENDS Integers, Sequences, FiniteSets, TLC

VARIABLES
    self,    \* the fields of the Tmc5160 struct
    cs,      \* level of the chip-select pin: "high" or "low"
    en_pin,  \* level of the enable pin: "unset" until driven, "high" or "low"
    bus,     \* pin and bus calls made by the last public operation, in order
    ret,     \* the last public call: its name, arguments and Result
    codec    \* input and output of the register codec under check

vars == <<self, cs, en_pin, bus, ret, codec>>

(***************************************************************************)
(* Bounds of the environment.                                              *)
(***************************************************************************)
\* the number of distinct (status, data) answers the transport rotates through
NumAnswers == 2

(***************************************************************************)
(* Machine words.                                                          *)
(***************************************************************************)
RECURSIVE SumSet(_)
SumSet(S) ==
    IF S = {} THEN 0
    ELSE LET x == CHOOSE y \in S : TRUE IN x + SumSet(S \ {x})

\* the u32 holding the natural n (n < 2^31), and the same for a byte
U32(n) == {i \in 0..30 : (n \div (2^i)) % 2 = 1}
U8(n) == {i \in 0..7 : (n \div (2^i)) % 2 = 1}
\* the natural held by a word that has no bit above bit 30
ToNat(x) == SumSet({2^i : i \in x})
\* val >> k
Shr(x, k) == {i - k : i \in {j \in x : j >= k}}
\* val << k on a u32: bits shifted past bit 31 are lost
Shl(x, k) == {i + k : i \in {j \in x : j + k <= 31}}
\* a & b and a | b on bytes
u8_and(a, b) == ToNat(U8(a) \cap U8(b))
u8_or(a, b) == ToNat(U8(a) \cup U8(b))
\* `flag as u32`
bool_as_u32(b) == IF b THEN {0} ELSE {}
\* `x as i32`: the two's-complement reading of the 32 bits
as_i32(x) ==
    IF 31 \in x THEN (ToNat(x \ {31}) - 1073741824) - 1073741824
    ELSE ToNat(x)
\* u32::to_be_bytes and u32::from_be_bytes: most significant byte first
to_be_bytes(x) == [k \in 1..4 |-> ToNat(Shr(x, 8 * (4 - k)) \cap (0..7))]
from_be_bytes(b) ==
    Shl(U8(b[1]), 24) \cup Shl(U8(b[2]), 16) \cup Shl(U8(b[3]), 8) \cup U8(b[4])

\* `into_bytes()` of a register structure, given its encoding: the four
\* bytes of the register payload, most significant first
into_bytes(val) == to_be_bytes(val)

(***************************************************************************)
(* Register addresses (enum Registers).                                    *)
(***************************************************************************)
Registers ==
    [ GCONF |-> 0, GSTAT |-> 1, IFCNT |-> 2, SLAVECONF |-> 3,
      IO_INPUT_OUTPUT |-> 4, X_COMPARE |-> 5, OTP_PROG |-> 6, OTP_READ |-> 7,
      FACTORY_CONF |-> 8, SHORT_CONF |-> 9, DRV_CONF |-> 10,
      GLOBAL_SCALER |-> 11, OFFSET_READ |-> 12,
      IHOLD_IRUN |-> 16, TPOWERDOWN |-> 17, TSTEP |-> 18, TPWMTHRS |-> 19,
      TCOOLTHRS |-> 20, THIGH |-> 21,
      RAMPMODE |-> 32, XACTUAL |-> 33, VACTUAL |-> 34, VSTART |-> 35,
      A_1 |-> 36, V_1 |-> 37, AMAX |-> 38, VMAX |-> 39, DMAX |-> 40,
      D_1 |-> 42, VSTOP |-> 43, TZEROWAIT |-> 44, XTARGET |-> 45,
      VDCMIN |-> 51, SW_MODE |-> 52, RAMP_STAT |-> 53, XLATCH |-> 54,
      ENCMODE |-> 56, X_ENC |-> 57, ENC_CONST |-> 58, ENC_STATUS |-> 59,
      ENC_LATCH |-> 60, ENC_DEVIATION |-> 61,
      MSLUT_0_7 |-> 96, MSLUTSEL |-> 104, MSLUTSTART |-> 105, MSCNT |-> 106,
      MSCURACT |-> 107, CHOPCONF |-> 108, COOLCONF |-> 109, DCCTRL |-> 110,
      DRV_STATUS |-> 111, PWMCONF |-> 112, PWM_SCALE |-> 113,
      PWM_AUTO |-> 114, LOST_STEPS |-> 115 ]

RegNames == DOMAIN Registers

\* a variant of addr that keeps only the low six bits
addr_low6(reg) == Registers[reg] % 64

\* Address::addr for Registers: `self as u8`
addr(reg) == Registers[reg]

(***************************************************************************)
(* SPI status byte.                                                        *)
(***************************************************************************)
\* SpiStatus::new() / Default: every flag false
SpiStatus_new ==
    [ status_stop_r |-> FALSE, status_stop_l |-> FALSE,
      position_reached |-> FALSE, velocity_reached |-> FALSE,
      standstill |-> FALSE, sg2 |-> FALSE, driver_error |-> FALSE,
      reset_flag |-> FALSE ]

\* SpiStatus::from(value: u8).  In `value & 0b10 >> 1` the shift binds
\* tighter than the mask, so the mask is (0b10 >> 1).
SpiStatus_from(value) ==
    LET v == U8(value) IN
    [ status_stop_r    |-> Shr(v \cap U8(128), 7) = U8(1),
      status_stop_l    |-> Shr(v \cap U8(64), 6) = U8(1),
      position_reached |-> Shr(v \cap U8(64), 5) = U8(1),
      velocity_reached |-> Shr(v \cap U8(32), 4) = U8(1),
      standstill       |-> Shr(v \cap U8(16), 3) = U8(1),
      sg2              |-> Shr(v \cap U8(8), 2) = U8(1),
      driver_error     |-> (v \cap Shr(U8(2), 1)) = U8(1),
      reset_flag       |-> (v \cap U8(1)) = U8(1) ]

\* SpiStatus::to_val: every flag is shifted to bit 7 of a u8
SpiStatus_to_val(s) ==
    ToNat((Shl(bool_as_u32(s.status_stop_r), 7)
        \cup Shl(bool_as_u32(s.status_stop_l), 7)
        \cup Shl(bool_as_u32(s.position_reached), 7)
        \cup Shl(bool_as_u32(s.velocity_reached), 7)
        \cup Shl(bool_as_u32(s.standstill), 7)
        \cup Shl(bool_as_u32(s.sg2), 7)
        \cup Shl(bool_as_u32(s.driver_error), 7)
        \cup Shl(bool_as_u32(s.reset_flag), 7)) \cap (0..7))

(***************************************************************************)
(* Structured registers: decode (from) and encode (to_val).                *)
(***************************************************************************)
\* `(val >> k) & 0b1 == 1`
bit(val, k) == (Shr(val, k) \cap U32(1)) = U32(1)
\* `((val >> k) & mask) as u8`
field(val, k, mask) == ToNat(Shr(val, k) \cap U32(mask))
\* `(self.f as u32) << k` for an integer field and for a flag
put(f, k) == Shl(U32(f), k)
putb(f, k) == Shl(bool_as_u32(f), k)

GConf_new ==
    [ recalibrate |-> FALSE, faststandstill |-> FALSE, en_pwm_mode |-> TRUE,
      multistep_filt |-> TRUE, shaft |-> TRUE, diag0_error |-> FALSE,
      diag0_otp |-> FALSE, diag0_stall |-> FALSE, diag1_stall |-> FALSE,
      diag1_index |-> FALSE, diag1_onstate |-> FALSE,
      diag1_steps_skipped |-> FALSE, diag0_int_pushpull |-> FALSE,
      diag1_poscomp_pushpull |-> FALSE, small_hysteresis |-> FALSE,
      stop_enable |-> FALSE, direct_mode |-> FALSE, test_mode |-> FALSE ]

GConf_from(val) ==
    [ recalibrate |-> (val \cap U32(1)) = U32(1),
      faststandstill |-> bit(val, 1), en_pwm_mode |-> bit(val, 2),
      multistep_filt |-> bit(val, 3), shaft |-> bit(val, 4),
      diag0_error |-> bit(val, 5), diag0_otp |-> bit(val, 6),
      diag0_stall |-> bit(val, 7), diag1_stall |-> bit(val, 8),
      diag1_index |-> bit(val, 9), diag1_onstate |-> bit(val, 10),
      diag1_steps_skipped |-> bit(val, 11),
      diag0_int_pushpull |-> bit(val, 12),
      diag1_poscomp_pushpull |-> bit(val, 13),
      small_hysteresis |-> bit(val, 14), stop_enable |-> bit(val, 15),
      direct_mode |-> bit(val, 16), test_mode |-> bit(val, 17) ]

GConf_to_val(g) ==
    bool_as_u32(g.recalibrate)
    \cup putb(g.faststandstill, 1) \cup putb(g.en_pwm_mode, 2)
    \cup putb(g.multistep_filt, 3) \cup putb(g.shaft, 4)
    \cup putb(g.diag0_error, 5) \cup putb(g.diag0_otp, 6)
    \cup putb(g.diag0_stall, 7) \cup putb(g.diag1_stall, 8)
    \cup putb(g.diag1_index, 9) \cup putb(g.diag1_onstate, 10)
    \cup putb(g.diag1_steps_skipped, 11) \cup putb(g.diag0_int_pushpull, 12)
    \cup putb(g.diag1_poscomp_pushpull, 13) \cup putb(g.small_hysteresis, 14)
    \cup putb(g.stop_enable, 15) \cup putb(g.direct_mode, 16)
    \cup putb(g.test_mode, 17)

GStat_from(val) ==
    [ reset |-> Shr(val \cap U32(4), 2) = U32(1),
      drv_err |-> Shr(val \cap U32(2), 1) = U32(1),
      uv_cp |-> (val \cap U32(1)) = U32(1) ]

DrvStatus_from(value) ==
    [ standstill |-> bit(value, 31), olb |-> bit(value, 30),
      ola |-> bit(value, 29), s2gb |-> bit(value, 28),
      s2ga |-> bit(value, 27), sg2 |-> bit(value, 26),
      otpw |-> bit(value, 25), ot |-> bit(value, 24),
      stallguard |-> bit(value, 23), cs_actual |-> field(value, 16, 31),
      fsactive |-> bit(value, 15), stealth |-> bit(value, 14),
      s2vsb |-> bit(value, 13), s2vsa |-> bit(value, 12),
      sg_result |-> ToNat(value \cap U32(1023)) ]

DrvConf_new ==
    [ bbm_time |-> 0, bbm_clks |-> 0, ots_select |-> 0, drv_strength |-> 0,
      filt_isense |-> 0 ]

DrvConf_from(val) ==
    [ bbm_time |-> ToNat(val \cap U32(31)), bbm_clks |-> field(val, 8, 15),
      ots_select |-> field(val, 16, 3), drv_strength |-> field(val, 18, 3),
      filt_isense |-> field(val, 20, 3) ]

\* a variant of DrvConf::to_val that places drv_strength one bit higher
DrvConf_to_val_shifted(d) ==
    U32(d.bbm_time) \cup put(d.bbm_clks, 8) \cup put(d.ots_select, 16)
    \cup put(d.drv_strength, 19) \cup put(d.filt_isense, 20)

DrvConf_to_val(d) ==
    U32(d.bbm_time) \cup put(d.bbm_clks, 8) \cup put(d.ots_select, 16)
    \cup put(d.drv_strength, 18) \cup put(d.filt_isense, 20)

IHoldIRun_new == [ i_hold |-> 16, i_run |-> 31, i_hold_delay |-> 0 ]

IHoldIRun_from(val) ==
    [ i_hold |-> ToNat(val \cap U32(31)), i_run |-> field(val, 8, 31),
      i_hold_delay |-> field(val, 16, 15) ]

IHoldIRun_to_val(r) ==
    U32(r.i_hold) \cup put(r.i_run, 8) \cup put(r.i_hold_delay, 16)

SwMode_from(val) ==
    [ stop_l_enable |-> (val \cap U32(1)) = U32(1),
      stop_r_enable |-> bit(val, 1), pol_stop_l |-> bit(val, 2),
      pol_stop_r |-> bit(val, 3), swap_lr |-> bit(val, 4),
      latch_l_active |-> bit(val, 5), latch_l_inactive |-> bit(val, 6),
      latch_r_active |-> bit(val, 7), latch_r_inactive |-> bit(val, 8),
      en_latch_encoder |-> bit(val, 9), sg_stop |-> bit(val, 10),
      en_softstop |-> bit(val, 11) ]

SwMode_to_val(s) ==
    bool_as_u32(s.stop_l_enable)
    \cup putb(s.stop_r_enable, 1) \cup putb(s.pol_stop_l, 2)
    \cup putb(s.pol_stop_r, 3) \cup putb(s.swap_lr, 4)
    \cup putb(s.latch_l_active, 5) \cup putb(s.latch_l_inactive, 6)
    \cup putb(s.latch_r_active, 7) \cup putb(s.latch_r_inactive, 8)
    \cup putb(s.en_latch_encoder, 9) \cup putb(s.sg_stop, 10)
    \cup putb(s.en_softstop, 11)

RampStat_from(val) ==
    [ status_stop_l |-> (val \cap U32(1)) = U32(1),
      status_stop_r |-> bit(val, 1), status_latch_l |-> bit(val, 2),
      status_latch_r |-> bit(val, 3), event_stop_l |-> bit(val, 4),
      event_stop_r |-> bit(val, 5), event_stop_sg |-> bit(val, 6),
      event_pos_reached |-> bit(val, 7), velocity_reached |-> bit(val, 8),
      position_reached |-> bit(val, 9), vzero |-> bit(val, 10),
      t_zerowait_active |-> bit(val, 11), second_move |-> bit(val, 12),
      status_sg |-> bit(val, 13) ]

RampStat_to_val(s) ==
    bool_as_u32(s.status_stop_l)
    \cup putb(s.status_stop_r, 1) \cup putb(s.status_latch_l, 2)
    \cup putb(s.status_latch_r, 3) \cup putb(s.event_stop_l, 4)
    \cup putb(s.event_stop_r, 5) \cup putb(s.event_stop_sg, 6)
    \cup putb(s.event_pos_reached, 7) \cup putb(s.velocity_reached, 8)
    \cup putb(s.position_reached, 9) \cup putb(s.vzero, 10)
    \cup putb(s.t_zerowait_active, 11) \cup putb(s.second_move, 12)
    \cup putb(s.status_sg, 13)

EncMode_from(val) ==
    [ pol_a |-> (val \cap U32(1)) = U32(1), pol_b |-> bit(val, 1),
      pol_n |-> bit(val, 2), ignore_ab |-> bit(val, 3),
      clr_cont |-> bit(val, 4), clr_once |-> bit(val, 5),
      pos_edge |-> bit(val, 6), neg_edge |-> bit(val, 7),
      clr_enc_x |-> bit(val, 8), latch_x_act |-> bit(val, 9),
      enc_sel_decimal |-> bit(val, 10) ]

EncMode_to_val(e) ==
    bool_as_u32(e.pol_a)
    \cup putb(e.pol_b, 1) \cup putb(e.pol_n, 2) \cup putb(e.ignore_ab, 3)
    \cup putb(e.clr_cont, 4) \cup putb(e.clr_once, 5)
    \cup putb(e.pos_edge, 6) \cup putb(e.neg_edge, 7)
    \cup putb(e.clr_enc_x, 8) \cup putb(e.latch_x_act, 9)
    \cup putb(e.enc_sel_decimal, 10)

ChopConf_from(val) ==
    [ toff |-> ToNat(val \cap U32(15)), hstr |-> field(val, 4, 7),
      hend |-> field(val, 7, 15), fd3 |-> bit(val, 11),
      disfdcc |-> bit(val, 12), chm |-> bit(val, 14),
      tbl |-> field(val, 15, 3), vhighfs |-> bit(val, 18),
      vhighchm |-> bit(val, 19), tpfd |-> field(val, 20, 15),
      mres |-> field(val, 24, 15), intpol |-> bit(val, 28),
      dedge |-> bit(val, 29), diss2g |-> bit(val, 30),
      diss2vs |-> bit(val, 31) ]

\* the power-on value 0x10410150, as the word with bits 28, 22, 16, 8, 6, 4
ChopConf_reset == {28, 22, 16, 8, 6, 4}

\* a variant of the default ChopConf with every field zero
ChopConf_default_zero == ChopConf_from({})

\* impl Default for ChopConf: the same slices taken from 0x10410150
ChopConf_default == ChopConf_from(ChopConf_reset)

ChopConf_to_val(c) ==
    U32(c.toff) \cup put(c.hstr, 4) \cup put(c.hend, 7) \cup putb(c.fd3, 11)
    \cup putb(c.disfdcc, 13) \cup putb(c.chm, 14) \cup put(c.tbl, 15)
    \cup putb(c.vhighfs, 18) \cup putb(c.vhighchm, 19) \cup put(c.tpfd, 20)
    \cup put(c.mres, 24) \cup putb(c.intpol, 28) \cup putb(c.dedge, 29)
    \cup putb(c.diss2g, 30) \cup putb(c.diss2vs, 31)

CoolConf_default ==
    [ semin |-> 0, seup |-> 0, semax |-> 0, sedn |-> 0, seimin |-> FALSE,
      sgt |-> 0, sfilt |-> FALSE ]

CoolConf_from(val) ==
    [ semin |-> ToNat(val \cap U32(15)), seup |-> field(val, 5, 3),
      semax |-> field(val, 8, 15), sedn |-> field(val, 13, 3),
      seimin |-> bit(val, 15), sgt |-> field(val, 16, 127),
      sfilt |-> bit(val, 24) ]

\* bit 15 is written from semin, not from seimin
CoolConf_to_val(c) ==
    U32(c.semin) \cup put(c.seup, 5) \cup put(c.semax, 8) \cup put(c.sedn, 13)
    \cup put(c.semin, 15) \cup put(c.sgt, 16) \cup putb(c.sfilt, 24)

PwmConf_from(val) ==
    [ pwm_ofs |-> ToNat(val \cap U32(255)), pwm_grad |-> field(val, 8, 255),
      pwm_freq |-> field(val, 16, 3), pwm_autoscale |-> bit(val, 18),
      pwm_autograd |-> bit(val, 19), free_wheel |-> field(val, 20, 3),
      pwm_reg |-> field(val, 24, 15), pwm_lim |-> field(val, 28, 15) ]

\* the power-on value 0xC40C001E
PwmConf_reset == {31, 30, 26, 19, 18, 4, 3, 2, 1}

\* impl Default for PwmConf: the same slices taken from 0xC40C001E
PwmConf_default == PwmConf_from(PwmConf_reset)

PwmConf_to_val(p) ==
    U32(p.pwm_ofs) \cup put(p.pwm_grad, 8) \cup put(p.pwm_freq, 16)
    \cup putb(p.pwm_autoscale, 18) \cup putb(p.pwm_autograd, 19)
    \cup put(p.free_wheel, 20) \cup put(p.pwm_reg, 24) \cup put(p.pwm_lim, 28)

\* #[derive(Default)] on SwMode: every flag false
SwMode_default == SwMode_from({})

(***************************************************************************)
(* The collaborators: the SPI transport and the two output pins.           *)
(*                                                                         *)
(* A call runs on a machine record m: the driver (self), the pin levels,   *)
(* the log of pin and bus calls made so far, the number n of exchanges     *)
(* made so far, and the behaviour env the collaborators show during the    *)
(* call.  Every function returns a Result together with the machine it     *)
(* leaves behind.                                                          *)
(***************************************************************************)
\* what the transport answers: the status byte clocked out with the address
\* byte and the four bytes clocked out with the payload
Answers ==
    << [status |-> 129, data |-> <<0, 0, 0, 1>>],
       [status |-> 72,  data |-> <<0, 255, 255, 255>>],
       [status |-> 58,  data |-> <<0, 128, 0, 48>>],
       [status |-> 0,   data |-> <<0, 0, 0, 0>>],
       [status |-> 255, data |-> <<255, 255, 255, 255>>] >>

\* the answer to the i-th transaction of a call whose first answer is `first`
Answer(first, i) == Answers[((first + i - 2) % NumAnswers) + 1]

\* behaviours of the collaborators during one call that makes up to k
\* transactions of two exchanges each: the exchange that fails (0: none), the
\* first answer, and whether driving a pin fails
Envs(k) ==
    [failAt : 0..(2 * k), first : 1..NumAnswers,
     csFail : {FALSE}, enFail : {FALSE}]

\* the same with a chip-select pin that may fail to be driven
EnvsCs(k) ==
    [failAt : 0..(2 * k), first : 1..NumAnswers,
     csFail : BOOLEAN, enFail : {FALSE}]

\* the same with an enable pin that may fail to be driven
EnvsEn(k) ==
    [failAt : 0..(2 * k), first : 1..NumAnswers,
     csFail : {FALSE}, enFail : BOOLEAN]

Ok(m, v) == [m |-> m, ok |-> TRUE, err |-> "none", val |-> v]
Err(m, e) == [m |-> m, ok |-> FALSE, err |-> e, val |-> <<>>]

Ev(name, tx, rx, ok) == [ev |-> name, tx |-> tx, rx |-> rx, ok |-> ok]

\* Transfer::transfer(&mut words): full-duplex exchange; on success the
\* buffer holds the received bytes
spi_transfer(m, words) ==
    LET n == m.n + 1
        a == Answer(m.env.first, (n + 1) \div 2)
        rx == IF Len(words) = 1 THEN <<a.status>> ELSE a.data
    IN  IF n = m.env.failAt
        THEN Err([m EXCEPT !.n = n,
                           !.log = Append(@, Ev("transfer", words, <<>>, FALSE))],
                 "Spi")
        ELSE Ok([m EXCEPT !.n = n,
                          !.log = Append(@, Ev("transfer", words, rx, TRUE))],
                rx)

\* OutputPin::set_low / set_high on the chip-select pin
cs_set(m, level) ==
    IF m.env.csFail
    THEN Err([m EXCEPT !.log = Append(@, Ev("cs_" \o level, <<>>, <<>>, FALSE))],
             "pin")
    ELSE Ok([m EXCEPT !.cs = level,
                      !.log = Append(@, Ev("cs_" \o level, <<>>, <<>>, TRUE))],
            <<>>)

\* OutputPin::set_low / set_high on the enable pin
en_set(m, level) ==
    IF m.env.enFail
    THEN Err([m EXCEPT !.log = Append(@, Ev("en_" \o level, <<>>, <<>>, FALSE))],
             "pin")
    ELSE Ok([m EXCEPT !.en_pin = level,
                      !.log = Append(@, Ev("en_" \o level, <<>>, <<>>, TRUE))],
            <<>>)

(***************************************************************************)
(* Tmc5160: construction.                                                  *)
(***************************************************************************)
\* the default clock, 12 MHz, and the default step count
DefaultClock == 12000000
DefaultStepCount == 256

\* Tmc5160::new
new ==
    [ en |-> FALSE, v_max |-> 0, status |-> SpiStatus_new,
      _clock |-> DefaultClock, _step_count |-> DefaultStepCount,
      _en_inverted |-> FALSE,
      g_conf |-> GConf_new, ihold_irun |-> IHoldIRun_new,
      sw_mode |-> SwMode_default, chop_conf |-> ChopConf_default,
      pwm_conf |-> PwmConf_default ]

(***************************************************************************)
(* Unit conversions.  The f32 expressions are evaluated exactly and then   *)
(* truncated toward zero; `as u32` saturates.                              *)
(***************************************************************************)
\* quotient bits of the binary long division of the number with bits x by d,
\* from bit k down, r being the running remainder
RECURSIVE DivStep(_, _, _, _)
DivStep(x, d, k, r) ==
    IF k < 0 THEN {}
    ELSE LET r1 == 2 * r + (IF k \in x THEN 1 ELSE 0) IN
         (IF r1 >= d THEN {k} ELSE {})
         \cup DivStep(x, d, k - 1, IF r1 >= d THEN r1 - d ELSE r1)

\* the highest bit the conversions ever produce
TopBit == 80

\* `f as u32` for a non-negative f given by its integer bits
float_as_u32(x) == IF \E i \in x : i > 31 THEN 0..31 ELSE x

\* a variant of speed_from_hz that always takes the default clock
speed_from_hz_default_clock(m, speed_hz) ==
    float_as_u32(
        DivStep({i + 24 : i \in U32(speed_hz * m.self._step_count)},
                DefaultClock, TopBit, 0))

speed_from_hz(m, speed_hz) ==
    float_as_u32(
        DivStep({i + 24 : i \in U32(speed_hz * m.self._step_count)},
                m.self._clock, TopBit, 0))

accel_from_hz(m, accel_hz_per_s) ==
    float_as_u32(
        DivStep(DivStep({i + 41 : i \in U32(accel_hz_per_s * m.self._step_count)},
                        m.self._clock, TopBit, 0),
                m.self._clock, TopBit, 0))

\* `v as u32` for an i32 v
i32_as_u32(v) ==
    IF v >= 0 THEN U32(v) ELSE {31} \cup U32((v + 1073741824) + 1073741824)

(***************************************************************************)
(* Results.                                                                *)
(***************************************************************************)
\* `r?` followed by K: the error of r is returned at once, else K runs on r
Try(r, K(_)) == IF r.ok THEN K(r) ELSE Err(r.m, r.err)

\* `r.map(F)`
Map(r, F(_)) == IF r.ok THEN Ok(r.m, F(r.val)) ELSE Err(r.m, r.err)

\* a Result together with what the caller's buffer holds on return
WithBuf(r, b) ==
    [m |-> r.m, ok |-> r.ok, err |-> r.err, val |-> r.val, buf |-> b]

\* the Result of a write, returned as the call's Result
Written(r) == [m |-> r.m, ok |-> r.ok, err |-> r.err, val |-> r.val]

\* `let packet = r?; self.status = packet.status; Ok(packet)`
CacheStatus(r) ==
    Try(r, LAMBDA p : Ok([p.m EXCEPT !.self.status = p.val.status], p.val))

\* `let packet = r?; self.status = packet.status; Ok(F(packet.data))`
CacheStatusAnd(r, F(_)) ==
    Try(r, LAMBDA p :
        Ok([p.m EXCEPT !.self.status = p.val.status], F(p.val.data)))

(***************************************************************************)
(* Tmc5160: raw register access.                                           *)
(***************************************************************************)
\* Ok(DataPacket { status: SpiStatus::from_bytes(buffer), data: from_be_bytes })
\* after cs.set_high().ok()
DataPacket(m, buffer, ret_val) ==
    Ok(cs_set(m, "high").m,
       [status |-> SpiStatus_from(buffer[1]), data |-> from_be_bytes(ret_val)])

read_io(m, reg) ==
    Try(spi_transfer(cs_set(m, "low").m, <<u8_and(addr(reg), 127)>>),
        LAMBDA t1 :
            Try(spi_transfer(t1.m, <<0, 0, 0, 0>>),
                LAMBDA t2 : DataPacket(t2.m, t1.val, t2.val)))

\* a variant of read_register that hands back the packet of the first read
read_register_first(m, reg) ==
    Try(read_io(m, reg), LAMBDA dummy :
        Try(read_io(dummy.m, reg), LAMBDA p : Ok(p.m, dummy.val)))

read_register(m, reg) ==
    Try(read_io(m, reg), LAMBDA dummy : read_io(dummy.m, reg))

\* a variant of write_register that sends the address without the write flag
write_register_noflag(m, reg, val) ==
    Try(spi_transfer(cs_set(m, "low").m, <<addr(reg)>>),
        LAMBDA t1 :
            Try(spi_transfer(t1.m, val),
                LAMBDA t2 : WithBuf(DataPacket(t2.m, t1.val, t2.val), t2.val)))

\* val is the caller's buffer, which the payload exchange overwrites
write_register(m, reg, val) ==
    Try(spi_transfer(cs_set(m, "low").m, <<u8_or(addr(reg), 128)>>),
        LAMBDA t1 :
            Try(spi_transfer(t1.m, val),
                LAMBDA t2 : WithBuf(DataPacket(t2.m, t1.val, t2.val), t2.val)))

(***************************************************************************)
(* Tmc5160: the enable pin.                                                *)
(***************************************************************************)
\* map_err(|_| Error::PinError)
PinError(r) == IF r.ok THEN r ELSE Err(r.m, "PinError")

enable(m) ==
    IF m.self.en
    THEN IF m.self._en_inverted THEN PinError(en_set(m, "high"))
         ELSE PinError(en_set(m, "low"))
    ELSE Ok(m, <<>>)

\* a variant of disable that ignores the inverted flag
disable_not_inverted(m) ==
    IF m.self.en THEN PinError(en_set(m, "high")) ELSE Ok(m, <<>>)

disable(m) ==
    IF m.self.en
    THEN IF m.self._en_inverted THEN PinError(en_set(m, "low"))
         ELSE PinError(en_set(m, "high"))
    ELSE Ok(m, <<>>)

(***************************************************************************)
(* Tmc5160: register readers.                                              *)
(***************************************************************************)

read_drv_status(m) ==
    CacheStatusAnd(read_register(m, "DRV_STATUS"), DrvStatus_from)

read_ramp_status(m) ==
    CacheStatusAnd(read_register(m, "RAMP_STAT"), RampStat_from)

(***************************************************************************)
(* Tmc5160: motion.                                                        *)
(***************************************************************************)
\* a variant of set_home that caches the status of each write as it returns
set_home_caching_each(m) ==
    Try(write_register(m, "XACTUAL", to_be_bytes(U32(0))),
        LAMBDA w1 :
            CacheStatus(write_register(
                [w1.m EXCEPT !.self.status = w1.val.status], "XTARGET",
                w1.buf)))

\* the one buffer val is passed to both writes
set_home(m) ==
    Try(write_register(m, "XACTUAL", to_be_bytes(U32(0))),
        LAMBDA w1 : CacheStatus(write_register(w1.m, "XTARGET", w1.buf)))

stop(m) ==
    Try(disable(m), LAMBDA d :
        Try(write_register(d.m, "VSTART", to_be_bytes(U32(0))),
            LAMBDA w1 : CacheStatus(write_register(w1.m, "VMAX", w1.buf))))

\* `self.v_max = velocity` comes first
set_velocity_cached(m, velocity) == [m EXCEPT !.self.v_max = velocity]

\* a variant of set_velocity that assigns v_max once the write has succeeded
set_velocity_cached_late(m, velocity) ==
    Try(write_register(m, "VMAX", to_be_bytes(speed_from_hz(m, velocity))),
        LAMBDA w :
            Ok([w.m EXCEPT !.self.v_max = velocity,
                           !.self.status = w.val.status], w.val))

set_velocity(m, velocity) ==
    CacheStatus(write_register(set_velocity_cached(m, velocity), "VMAX",
                               to_be_bytes(speed_from_hz(m, velocity))))

\* going on whatever the Result was
Unchecked(r, K(_)) == IF r.ok THEN K(r) ELSE K(r)

\* a variant of set_acceleration that does not look at the results of the
\* first three writes
set_acceleration_unchecked(m, acceleration) ==
    Unchecked(write_register(m, "AMAX",
                             to_be_bytes(accel_from_hz(m, acceleration))),
        LAMBDA w1 :
            Unchecked(write_register(w1.m, "DMAX",
                          to_be_bytes(accel_from_hz(m, acceleration))),
                LAMBDA w2 :
                    Unchecked(write_register(w2.m, "A_1",
                                  to_be_bytes(accel_from_hz(m, acceleration))),
                        LAMBDA w3 :
                            CacheStatus(write_register(w3.m, "D_1",
                                to_be_bytes(accel_from_hz(m, acceleration)))))))

\* the one buffer val is passed to all four writes
set_acceleration(m, acceleration) ==
    Try(write_register(m, "AMAX", to_be_bytes(accel_from_hz(m, acceleration))),
        LAMBDA w1 :
            Try(write_register(w1.m, "DMAX", w1.buf), LAMBDA w2 :
                Try(write_register(w2.m, "A_1", w2.buf), LAMBDA w3 :
                    CacheStatus(write_register(w3.m, "D_1", w3.buf)))))

\* a variant of move_to that writes XTARGET before it enables the motor
move_to_late_enable(m, target_signed) ==
    Try(CacheStatus(write_register(
            m, "XTARGET",
            to_be_bytes(i32_as_u32(target_signed * m.self._step_count)))),
        LAMBDA w : Try(enable(w.m), LAMBDA e : Ok(e.m, w.val)))

move_to(m, target_signed) ==
    Try(enable(m), LAMBDA e :
        CacheStatus(write_register(
            e.m, "XTARGET",
            to_be_bytes(i32_as_u32(target_signed * e.m.self._step_count)))))

\* the closure of get_velocity; the quotient by _step_count is kept as
\* numerator and denominator
velocity_of(target, step_count) ==
    IF (target.data \cap {23}) = {23}
    THEN [num |-> 16777216 - as_i32(target.data), den |-> step_count]
    ELSE [num |-> as_i32(target.data), den |-> step_count]

get_velocity(m) ==
    Map(read_register(m, "VACTUAL"),
        LAMBDA target : velocity_of(target, m.self._step_count))

(***************************************************************************)
(* The public calls as actions.  The driver is used from one thread, one   *)
(* blocking call at a time, so each call is one step.                      *)
(***************************************************************************)
\* arguments the calls are tried with
RegSample == {"GCONF", "D_1", "LOST_STEPS"}
\* 0x01020304 and 0x80000007
Val == {24, 17, 9, 8, 2}
ValSamples == {Val, {31, 2, 1, 0}}
Velocities == {1000, 2000}
Accelerations == {1000, 5000}
Targets == {100, -100}
Positions == {0, 100}
RampModes == 0..3
Clocks == {DefaultClock, 16000000}
StepCounts == {DefaultStepCount, 16}

NoCodec ==
    [ty |-> "none", step |-> "none", in |-> <<>>, mid |-> <<>>, out |-> <<>>]

\* the machine a call starts on
M(e) ==
    [self |-> self, cs |-> cs, en_pin |-> en_pin, log |-> <<>>, n |-> 0,
     env |-> e]

\* no call has returned a Result that the caller still holds
NoCall ==
    [op |-> "none", args |-> <<>>, ok |-> TRUE, err |-> "none", val |-> <<>>]

\* no call is under way: the caller has taken the last result
Idle == ret.op = "none"

\* the caller makes the call `name(args)`, which returns r
Call(name, args, r) ==
    /\ self' = r.m.self
    /\ cs' = r.m.cs
    /\ en_pin' = r.m.en_pin
    /\ bus' = r.m.log
    /\ ret' = [op |-> name, args |-> args, ok |-> r.ok, err |-> r.err,
               val |-> r.val]
    /\ UNCHANGED codec

\* the chip-select pin is driven high before the driver is built
\* (examples/startup_check.rs: nss.set_high())
Init ==
    /\ self = new
    /\ cs = "high"
    /\ en_pin = "unset"
    /\ bus = <<>>
    /\ ret = NoCall
    /\ codec = NoCodec

\* Tmc5160::en: attach an enable pin
Do_en ==
    /\ ret.op = "none"
    /\ self' = [self EXCEPT !.en = TRUE]
    /\ en_pin' = "unset"
    /\ bus' = <<>>
    /\ ret' = [op |-> "en", args |-> <<>>, ok |-> TRUE, err |-> "none",
               val |-> <<>>]
    /\ UNCHANGED <<cs, codec>>

\* Tmc5160::en_inverted
Do_en_inverted ==
    \E inv \in BOOLEAN :
        /\ ret.op = "none"
        /\ self' = [self EXCEPT !._en_inverted = inv]
        /\ bus' = <<>>
        /\ ret' = [op |-> "en_inverted", args |-> <<inv>>, ok |-> TRUE,
                   err |-> "none", val |-> <<>>]
        /\ UNCHANGED <<cs, en_pin, codec>>

\* Tmc5160::clock
Do_clock ==
    \E clock \in Clocks :
        /\ ret.op = "none"
        /\ self' = [self EXCEPT !._clock = clock]
        /\ bus' = <<>>
        /\ ret' = [op |-> "clock", args |-> <<clock>>, ok |-> TRUE,
                   err |-> "none", val |-> <<>>]
        /\ UNCHANGED <<cs, en_pin, codec>>

\* Tmc5160::step_count
Do_step_count ==
    \E step_count \in StepCounts :
        /\ ret.op = "none"
        /\ self' = [self EXCEPT !._step_count = step_count]
        /\ bus' = <<>>
        /\ ret' = [op |-> "step_count", args |-> <<step_count>>, ok |-> TRUE,
                   err |-> "none", val |-> <<>>]
        /\ UNCHANGED <<cs, en_pin, codec>>

\* the caller takes the Result and goes on (examples/startup_check.rs: the
\* match on each call's Result); the log of the call is dropped with it
Return ==
    /\ ret.op # "none"
    /\ ret' = NoCall
    /\ bus' = <<>>
    /\ UNCHANGED <<self, cs, en_pin, codec>>

Do_read_register ==
    \E reg \in RegSample, e \in EnvsCs(2) :
        Idle /\ Call("read_register", <<reg>>, read_register(M(e), reg))

Do_write_register ==
    \E reg \in RegSample, val \in ValSamples, e \in EnvsCs(1) :
        Idle /\ Call("write_register", <<reg, to_be_bytes(val)>>,
             Written(write_register(M(e), reg, to_be_bytes(val))))

Do_clear_g_stat ==
    \E e \in Envs(1) :
        /\ Idle
        /\ Call("clear_g_stat", <<>>,
                Written(write_register(M(e), "GCONF",
                    to_be_bytes(U32(7)))))

Do_update_sw_mode ==
    \E e \in Envs(1) :
        /\ Idle
        /\ Call("update_sw_mode", <<>>,
                Written(write_register(M(e), "SW_MODE",
                    into_bytes(SwMode_to_val(M(e).self.sw_mode)))))

Do_update_g_conf ==
    \E e \in Envs(1) :
        /\ Idle
        /\ Call("update_g_conf", <<>>,
                Written(write_register(M(e), "GCONF",
                    into_bytes(GConf_to_val(M(e).self.g_conf)))))

\* a variant of update_chop_conf that sends the structure to GCONF
Do_update_chop_conf_gconf ==
    \E e \in Envs(1) :
        /\ Idle
        /\ Call("update_chop_conf", <<>>,
                Written(write_register(M(e), "GCONF",
                    into_bytes(ChopConf_to_val(M(e).self.chop_conf)))))

Do_update_chop_conf ==
    \E e \in Envs(1) :
        /\ Idle
        /\ Call("update_chop_conf", <<>>,
                Written(write_register(M(e), "CHOPCONF",
                    into_bytes(ChopConf_to_val(M(e).self.chop_conf)))))

Do_update_ihold_irun ==
    \E e \in Envs(1) :
        /\ Idle
        /\ Call("update_ihold_irun", <<>>,
                Written(write_register(M(e), "IHOLD_IRUN",
                    into_bytes(IHoldIRun_to_val(M(e).self.ihold_irun)))))

Do_update_pwm_conf ==
    \E e \in Envs(1) :
        /\ Idle
        /\ Call("update_pwm_conf", <<>>,
                Written(write_register(M(e), "PWMCONF",
                    into_bytes(PwmConf_to_val(M(e).self.pwm_conf)))))

Do_read_global_scaler ==
    \E e \in Envs(2) :
        /\ Idle
        /\ Call("read_global_scaler", <<>>,
                Map(read_register(M(e), "GLOBAL_SCALER"), LAMBDA packet :
                    packet.data))

Do_read_offset ==
    \E e \in Envs(2) :
        /\ Idle
        /\ Call("read_offset", <<>>,
                Map(read_register(M(e), "OFFSET_READ"), LAMBDA packet :
                    packet.data))

Do_read_tstep ==
    \E e \in Envs(2) :
        /\ Idle
        /\ Call("read_tstep", <<>>,
                Map(read_register(M(e), "TSTEP"), LAMBDA packet :
                    packet.data))

Do_read_drv_status ==
    \E e \in Envs(2) : Idle /\ Call("read_drv_status", <<>>, read_drv_status(M(e)))

Do_read_gstat ==
    \E e \in Envs(2) :
        /\ Idle
        /\ Call("read_gstat", <<>>,
                CacheStatusAnd(read_register(M(e), "GSTAT"), GStat_from))

Do_read_gconf ==
    \E e \in Envs(2) :
        /\ Idle
        /\ Call("read_gconf", <<>>,
                CacheStatusAnd(read_register(M(e), "GCONF"), GConf_from))

Do_read_ramp_status ==
    \E e \in Envs(2) : Idle /\ Call("read_ramp_status", <<>>, read_ramp_status(M(e)))

Do_is_moving ==
    \E e \in Envs(2) :
        /\ Idle
        /\ Call("is_moving", <<>>,
                Map(read_drv_status(M(e)), LAMBDA packet :
                    ~packet.standstill))

Do_is_at_limit_r ==
    \E e \in Envs(2) :
        /\ Idle
        /\ Call("is_at_limit_r", <<>>,
                Map(read_ramp_status(M(e)), LAMBDA packet :
                    packet.status_stop_r))

Do_is_at_limit_l ==
    \E e \in Envs(2) :
        /\ Idle
        /\ Call("is_at_limit_l", <<>>,
                Map(read_ramp_status(M(e)), LAMBDA packet :
                    packet.status_stop_l))

Do_set_home ==
    \E e \in Envs(2) : Idle /\ Call("set_home", <<>>, set_home(M(e)))

Do_stop ==
    \E e \in EnvsEn(2) : Idle /\ Call("stop", <<>>, stop(M(e)))

\* the f32 quotient data / _step_count / 400.0, kept as numerator and
\* denominator
Do_get_position ==
    \E e \in Envs(2) :
        /\ Idle
        /\ Call("get_position", <<>>,
                Map(read_register(M(e), "XACTUAL"), LAMBDA val :
                    [num |-> val.data,
                     den |-> M(e).self._step_count * 400]))

Do_get_velocity ==
    \E e \in Envs(2) : Idle /\ Call("get_velocity", <<>>, get_velocity(M(e)))

\* v_max / 400.0, kept as numerator and denominator; no bus traffic
Do_get_velocity_max ==
    \E e \in Envs(0) :
        /\ Idle
        /\ Call("get_velocity_max", <<>>,
                Ok(M(e), [num |-> M(e).self.v_max, den |-> 400]))

Do_get_target ==
    \E e \in Envs(2) :
        /\ Idle
        /\ Call("get_target", <<>>,
                Map(read_register(M(e), "XTARGET"), LAMBDA packet :
                    as_i32(packet.data)))

Do_enable ==
    \E e \in EnvsEn(0) : Idle /\ Call("enable", <<>>, enable(M(e)))

Do_disable ==
    \E e \in EnvsEn(0) : Idle /\ Call("disable", <<>>, disable(M(e)))

Do_set_global_scaler ==
    \E val \in {Val}, e \in Envs(1) :
        /\ Idle
        /\ Call("set_global_scaler", <<val>>,
                Written(write_register(M(e), "GLOBAL_SCALER",
                    to_be_bytes(val))))

Do_set_tpowerdown ==
    \E val \in {Val}, e \in Envs(1) :
        /\ Idle
        /\ Call("set_tpowerdown", <<val>>,
                Written(write_register(M(e), "TPOWERDOWN",
                    to_be_bytes(val))))

Do_set_tpwmthrs ==
    \E val \in {Val}, e \in Envs(1) :
        /\ Idle
        /\ Call("set_tpwmthrs", <<val>>,
                Written(write_register(M(e), "TPWMTHRS",
                    to_be_bytes(val))))

Do_set_tcoolthrs ==
    \E val \in {Val}, e \in Envs(1) :
        /\ Idle
        /\ Call("set_tcoolthrs", <<val>>,
                Written(write_register(M(e), "TCOOLTHRS",
                    to_be_bytes(val))))

Do_set_a1 ==
    \E val \in {Val}, e \in Envs(1) :
        /\ Idle
        /\ Call("set_a1", <<val>>,
                Written(write_register(M(e), "A_1", to_be_bytes(val))))

Do_set_v1 ==
    \E val \in {Val}, e \in Envs(1) :
        /\ Idle
        /\ Call("set_v1", <<val>>,
                Written(write_register(M(e), "V_1", to_be_bytes(val))))

Do_set_amax ==
    \E val \in {Val}, e \in Envs(1) :
        /\ Idle
        /\ Call("set_amax", <<val>>,
                Written(write_register(M(e), "AMAX", to_be_bytes(val))))

Do_set_vmax ==
    \E val \in {Val}, e \in Envs(1) :
        /\ Idle
        /\ Call("set_vmax", <<val>>,
                Written(write_register(M(e), "VMAX", to_be_bytes(val))))

Do_set_dmax ==
    \E val \in {Val}, e \in Envs(1) :
        /\ Idle
        /\ Call("set_dmax", <<val>>,
                Written(write_register(M(e), "DMAX", to_be_bytes(val))))

Do_set_d1 ==
    \E val \in {Val}, e \in Envs(1) :
        /\ Idle
        /\ Call("set_d1", <<val>>,
                Written(write_register(M(e), "D_1", to_be_bytes(val))))

Do_set_vstart ==
    \E val \in {Val}, e \in Envs(1) :
        /\ Idle
        /\ Call("set_vstart", <<val>>,
                Written(write_register(M(e), "VSTART", to_be_bytes(val))))

Do_set_vstop ==
    \E val \in {Val}, e \in Envs(1) :
        /\ Idle
        /\ Call("set_vstop", <<val>>,
                Written(write_register(M(e), "VSTOP", to_be_bytes(val))))

Do_set_pwm_auto ==
    \E val \in {Val}, e \in Envs(1) :
        /\ Idle
        /\ Call("set_pwm_auto", <<val>>,
                Written(write_register(M(e), "PWM_AUTO",
                    to_be_bytes(val))))

\* val is the RampMode discriminant, `val as u32`
Do_set_rampmode ==
    \E val \in RampModes, e \in Envs(1) :
        /\ Idle
        /\ Call("set_rampmode", <<val>>,
                Written(write_register(M(e), "VSTOP",
                    to_be_bytes(U32(val)))))

Do_set_velocity ==
    \E velocity \in Velocities, e \in Envs(1) :
        Idle /\ Call("set_velocity", <<velocity>>, set_velocity(M(e), velocity))

Do_set_acceleration ==
    \E acceleration \in Accelerations, e \in Envs(4) :
        Idle /\ Call("set_acceleration", <<acceleration>>, set_acceleration(M(e), acceleration))

Do_move_to ==
    \E target_signed \in Targets, e \in EnvsEn(1) :
        Idle /\ Call("move_to", <<target_signed>>, move_to(M(e), target_signed))

\* target_signed is non-negative: `target * step_count` then stays in range
Do_set_position ==
    \E target_signed \in Positions, e \in Envs(1) :
        /\ Idle
        /\ Call("set_position", <<target_signed>>,
                Written(write_register(M(e), "XACTUAL",
                    to_be_bytes(U32(target_signed * M(e).self._step_count)))))

Next ==
    \/ Return
    \/ Do_en
    \/ Do_en_inverted
    \/ Do_clock
    \/ Do_step_count
    \/ Do_read_register
    \/ Do_write_register
    \/ Do_clear_g_stat
    \/ Do_update_sw_mode
    \/ Do_update_g_conf
    \/ Do_update_chop_conf
    \/ Do_update_ihold_irun
    \/ Do_update_pwm_conf
    \/ Do_read_global_scaler
    \/ Do_read_offset
    \/ Do_read_tstep
    \/ Do_read_drv_status
    \/ Do_read_gstat
    \/ Do_read_gconf
    \/ Do_read_ramp_status
    \/ Do_is_moving
    \/ Do_is_at_limit_r
    \/ Do_is_at_limit_l
    \/ Do_set_home
    \/ Do_stop
    \/ Do_get_position
    \/ Do_get_velocity
    \/ Do_get_velocity_max
    \/ Do_get_target
    \/ Do_enable
    \/ Do_disable
    \/ Do_set_global_scaler
    \/ Do_set_tpowerdown
    \/ Do_set_tpwmthrs
    \/ Do_set_tcoolthrs
    \/ Do_set_a1
    \/ Do_set_v1
    \/ Do_set_amax
    \/ Do_set_vmax
    \/ Do_set_dmax
    \/ Do_set_d1
    \/ Do_set_vstart
    \/ Do_set_vstop
    \/ Do_set_pwm_auto
    \/ Do_set_rampmode
    \/ Do_set_velocity
    \/ Do_set_acceleration
    \/ Do_move_to
    \/ Do_set_position

Spec == Init /\ [][Next]_vars

(***************************************************************************)
(* The register codecs taken alone: a word is decoded and encoded again,   *)
(* or a field set is encoded and decoded again.                            *)
(***************************************************************************)
\* The fields of each structured register as its decoder slices them:
\* <<name, offset of the lowest bit, width in bits, TRUE for a flag>>
GConf_layout ==
    << <<"recalibrate", 0, 1, TRUE>>, <<"faststandstill", 1, 1, TRUE>>,
       <<"en_pwm_mode", 2, 1, TRUE>>, <<"multistep_filt", 3, 1, TRUE>>,
       <<"shaft", 4, 1, TRUE>>, <<"diag0_error", 5, 1, TRUE>>,
       <<"diag0_otp", 6, 1, TRUE>>, <<"diag0_stall", 7, 1, TRUE>>,
       <<"diag1_stall", 8, 1, TRUE>>, <<"diag1_index", 9, 1, TRUE>>,
       <<"diag1_onstate", 10, 1, TRUE>>,
       <<"diag1_steps_skipped", 11, 1, TRUE>>,
       <<"diag0_int_pushpull", 12, 1, TRUE>>,
       <<"diag1_poscomp_pushpull", 13, 1, TRUE>>,
       <<"small_hysteresis", 14, 1, TRUE>>, <<"stop_enable", 15, 1, TRUE>>,
       <<"direct_mode", 16, 1, TRUE>>, <<"test_mode", 17, 1, TRUE>> >>

DrvConf_layout ==
    << <<"bbm_time", 0, 5, FALSE>>, <<"bbm_clks", 8, 4, FALSE>>,
       <<"ots_select", 16, 2, FALSE>>, <<"drv_strength", 18, 2, FALSE>>,
       <<"filt_isense", 20, 2, FALSE>> >>

IHoldIRun_layout ==
    << <<"i_hold", 0, 5, FALSE>>, <<"i_run", 8, 5, FALSE>>,
       <<"i_hold_delay", 16, 4, FALSE>> >>

SwMode_layout ==
    << <<"stop_l_enable", 0, 1, TRUE>>, <<"stop_r_enable", 1, 1, TRUE>>,
       <<"pol_stop_l", 2, 1, TRUE>>, <<"pol_stop_r", 3, 1, TRUE>>,
       <<"swap_lr", 4, 1, TRUE>>, <<"latch_l_active", 5, 1, TRUE>>,
       <<"latch_l_inactive", 6, 1, TRUE>>, <<"latch_r_active", 7, 1, TRUE>>,
       <<"latch_r_inactive", 8, 1, TRUE>>, <<"en_latch_encoder", 9, 1, TRUE>>,
       <<"sg_stop", 10, 1, TRUE>>, <<"en_softstop", 11, 1, TRUE>> >>

RampStat_layout ==
    << <<"status_stop_l", 0, 1, TRUE>>, <<"status_stop_r", 1, 1, TRUE>>,
       <<"status_latch_l", 2, 1, TRUE>>, <<"status_latch_r", 3, 1, TRUE>>,
       <<"event_stop_l", 4, 1, TRUE>>, <<"event_stop_r", 5, 1, TRUE>>,
       <<"event_stop_sg", 6, 1, TRUE>>, <<"event_pos_reached", 7, 1, TRUE>>,
       <<"velocity_reached", 8, 1, TRUE>>, <<"position_reached", 9, 1, TRUE>>,
       <<"vzero", 10, 1, TRUE>>, <<"t_zerowait_active", 11, 1, TRUE>>,
       <<"second_move", 12, 1, TRUE>>, <<"status_sg", 13, 1, TRUE>> >>

EncMode_layout ==
    << <<"pol_a", 0, 1, TRUE>>, <<"pol_b", 1, 1, TRUE>>,
       <<"pol_n", 2, 1, TRUE>>, <<"ignore_ab", 3, 1, TRUE>>,
       <<"clr_cont", 4, 1, TRUE>>, <<"clr_once", 5, 1, TRUE>>,
       <<"pos_edge", 6, 1, TRUE>>, <<"neg_edge", 7, 1, TRUE>>,
       <<"clr_enc_x", 8, 1, TRUE>>, <<"latch_x_act", 9, 1, TRUE>>,
       <<"enc_sel_decimal", 10, 1, TRUE>> >>

ChopConf_layout ==
    << <<"toff", 0, 4, FALSE>>, <<"hstr", 4, 3, FALSE>>,
       <<"hend", 7, 4, FALSE>>, <<"fd3", 11, 1, TRUE>>,
       <<"disfdcc", 12, 1, TRUE>>, <<"chm", 14, 1, TRUE>>,
       <<"tbl", 15, 2, FALSE>>, <<"vhighfs", 18, 1, TRUE>>,
       <<"vhighchm", 19, 1, TRUE>>, <<"tpfd", 20, 4, FALSE>>,
       <<"mres", 24, 4, FALSE>>, <<"intpol", 28, 1, TRUE>>,
       <<"dedge", 29, 1, TRUE>>, <<"diss2g", 30, 1, TRUE>>,
       <<"diss2vs", 31, 1, TRUE>> >>

CoolConf_layout ==
    << <<"semin", 0, 4, FALSE>>, <<"seup", 5, 2, FALSE>>,
       <<"semax", 8, 4, FALSE>>, <<"sedn", 13, 2, FALSE>>,
       <<"seimin", 15, 1, TRUE>>, <<"sgt", 16, 7, FALSE>>,
       <<"sfilt", 24, 1, TRUE>> >>

PwmConf_layout ==
    << <<"pwm_ofs", 0, 8, FALSE>>, <<"pwm_grad", 8, 8, FALSE>>,
       <<"pwm_freq", 16, 2, FALSE>>, <<"pwm_autoscale", 18, 1, TRUE>>,
       <<"pwm_autograd", 19, 1, TRUE>>, <<"free_wheel", 20, 2, FALSE>>,
       <<"pwm_reg", 24, 4, FALSE>>, <<"pwm_lim", 28, 4, FALSE>> >>

Layouts ==
    [ GConf |-> GConf_layout, DrvConf |-> DrvConf_layout,
      IHoldIRun |-> IHoldIRun_layout, SwMode |-> SwMode_layout,
      RampStat |-> RampStat_layout, EncMode |-> EncMode_layout,
      ChopConf |-> ChopConf_layout, CoolConf |-> CoolConf_layout,
      PwmConf |-> PwmConf_layout ]

\* the value v as the field described by layout entry e holds it
FieldVal(e, v) == IF e[4] THEN v # 0 ELSE v

\* the field set with every field zero, but field i holding v (i = 0: none)
FieldSetWith(L, i, v) ==
    [n \in {L[j][1] : j \in DOMAIN L} |->
        LET j == CHOOSE k \in DOMAIN L : L[k][1] = n IN
        FieldVal(L[j], IF j = i THEN v ELSE 0)]

\* the field set with every field at its largest value
FieldSetMax(L) ==
    [n \in {L[j][1] : j \in DOMAIN L} |->
        LET j == CHOOSE k \in DOMAIN L : L[k][1] = n IN
        FieldVal(L[j], 2^(L[j][3]) - 1)]

\* field sets within their bit widths that the codecs are tried on: all zero,
\* all at their largest, and each field alone at 1, at its top bit, at its
\* largest
FieldSamples(L) ==
    {FieldSetWith(L, 0, 0), FieldSetMax(L)}
    \cup UNION {{FieldSetWith(L, i, v) :
                    v \in {1, 2^(L[i][3] - 1), 2^(L[i][3]) - 1}} :
                i \in DOMAIN L}

\* the bits of the word that belong to some field
DefinedBits(L) == UNION {L[i][2]..(L[i][2] + L[i][3] - 1) : i \in DOMAIN L}

\* words the codecs are tried on: no bit, each single bit, every bit, the even
\* bits, the odd bits
WordSamples ==
    {{}, 0..31, {i \in 0..31 : i % 2 = 0}, {i \in 0..31 : i % 2 = 1}}
    \cup {{i} : i \in 0..31}

NoField == <<>>

CodecInputs ==
    {[ty |-> t, step |-> "raw", in |-> x, mid |-> NoField, out |-> NoField] :
        t \in DOMAIN Layouts, x \in WordSamples}
    \cup UNION {{[ty |-> t, step |-> "fields", in |-> f, mid |-> NoField,
                  out |-> NoField] : f \in FieldSamples(Layouts[t])} :
                t \in DOMAIN Layouts}
    \cup {[ty |-> "SpiStatus", step |-> "raw", in |-> v, mid |-> NoField,
           out |-> NoField] : v \in 0..255}
    \cup {[ty |-> "SpiStatus", step |-> "fields", in |-> f, mid |-> NoField,
           out |-> NoField] :
            f \in [status_stop_r : BOOLEAN, status_stop_l : BOOLEAN,
                   position_reached : BOOLEAN, velocity_reached : BOOLEAN,
                   standstill : BOOLEAN, sg2 : BOOLEAN,
                   driver_error : BOOLEAN, reset_flag : BOOLEAN]}
    \cup {[ty |-> "Registers", step |-> "raw", in |-> <<r1, r2>>,
           mid |-> NoField, out |-> NoField] : r1 \in RegNames, r2 \in RegNames}
    \cup {[ty |-> t, step |-> "new", in |-> NoField, mid |-> NoField,
           out |-> NoField] : t \in {"ChopConf", "PwmConf", "IHoldIRun"}}

InitCodec ==
    /\ self = new
    /\ cs = "high"
    /\ en_pin = "unset"
    /\ bus = <<>>
    /\ ret = NoCall
    /\ codec \in CodecInputs

\* T::from applied to the word at hand
Decode(from(_)) ==
    /\ \/ /\ codec.step = "raw"
          /\ codec' = [codec EXCEPT !.step = "decoded", !.mid = from(codec.in)]
       \/ /\ codec.step = "encoded"
          /\ codec' = [codec EXCEPT !.step = "redecoded",
                                    !.out = from(codec.mid)]
    /\ UNCHANGED <<self, cs, en_pin, bus, ret>>

\* T::to_val applied to the field set at hand
Encode(to_val(_)) ==
    /\ \/ /\ codec.step = "fields"
          /\ codec' = [codec EXCEPT !.step = "encoded",
                                    !.mid = to_val(codec.in)]
       \/ /\ codec.step = "decoded"
          /\ codec' = [codec EXCEPT !.step = "reencoded",
                                    !.out = to_val(codec.mid)]
       \/ /\ codec.step = "built"
          /\ codec' = [codec EXCEPT !.step = "default_encoded",
                                    !.mid = to_val(codec.in)]
    /\ UNCHANGED <<self, cs, en_pin, bus, ret>>

\* a constructor without arguments gives the field set v
Construct(v) ==
    /\ codec.step = "new"
    /\ codec' = [codec EXCEPT !.step = "built", !.in = v]
    /\ UNCHANGED <<self, cs, en_pin, bus, ret>>

Do_ChopConf_default == codec.ty = "ChopConf" /\ Construct(ChopConf_default)
Do_PwmConf_default == codec.ty = "PwmConf" /\ Construct(PwmConf_default)
Do_IHoldIRun_new == codec.ty = "IHoldIRun" /\ Construct(IHoldIRun_new)

\* Registers::addr applied to each of two registers
Do_addr ==
    /\ codec.ty = "Registers"
    /\ codec.step = "raw"
    /\ codec' = [codec EXCEPT !.step = "addressed",
                              !.mid = <<addr(codec.in[1]), addr(codec.in[2])>>]
    /\ UNCHANGED <<self, cs, en_pin, bus, ret>>

Do_SpiStatus_from == codec.ty = "SpiStatus" /\ Decode(SpiStatus_from)
Do_SpiStatus_to_val == codec.ty = "SpiStatus" /\ Encode(SpiStatus_to_val)
Do_GConf_from == codec.ty = "GConf" /\ Decode(GConf_from)
Do_GConf_to_val == codec.ty = "GConf" /\ Encode(GConf_to_val)
Do_DrvConf_from == codec.ty = "DrvConf" /\ Decode(DrvConf_from)
Do_DrvConf_to_val == codec.ty = "DrvConf" /\ Encode(DrvConf_to_val)
Do_IHoldIRun_from == codec.ty = "IHoldIRun" /\ Decode(IHoldIRun_from)
Do_IHoldIRun_to_val == codec.ty = "IHoldIRun" /\ Encode(IHoldIRun_to_val)
Do_SwMode_from == codec.ty = "SwMode" /\ Decode(SwMode_from)
Do_SwMode_to_val == codec.ty = "SwMode" /\ Encode(SwMode_to_val)
Do_RampStat_from == codec.ty = "RampStat" /\ Decode(RampStat_from)
Do_RampStat_to_val == codec.ty = "RampStat" /\ Encode(RampStat_to_val)
Do_EncMode_from == codec.ty = "EncMode" /\ Decode(EncMode_from)
Do_EncMode_to_val == codec.ty = "EncMode" /\ Encode(EncMode_to_val)
Do_ChopConf_from == codec.ty = "ChopConf" /\ Decode(ChopConf_from)
Do_ChopConf_to_val == codec.ty = "ChopConf" /\ Encode(ChopConf_to_val)
Do_CoolConf_from == codec.ty = "CoolConf" /\ Decode(CoolConf_from)
Do_CoolConf_to_val == codec.ty = "CoolConf" /\ Encode(CoolConf_to_val)
Do_PwmConf_from == codec.ty = "PwmConf" /\ Decode(PwmConf_from)
Do_PwmConf_to_val == codec.ty = "PwmConf" /\ Encode(PwmConf_to_val)

NextCodec ==
    \/ Do_addr
    \/ Do_ChopConf_default
    \/ Do_PwmConf_default
    \/ Do_IHoldIRun_new
    \/ Do_SpiStatus_from
    \/ Do_SpiStatus_to_val
    \/ Do_GConf_from
    \/ Do_GConf_to_val
    \/ Do_DrvConf_from
    \/ Do_DrvConf_to_val
    \/ Do_IHoldIRun_from
    \/ Do_IHoldIRun_to_val
    \/ Do_SwMode_from
    \/ Do_SwMode_to_val
    \/ Do_RampStat_from
    \/ Do_RampStat_to_val
    \/ Do_EncMode_from
    \/ Do_EncMode_to_val
    \/ Do_ChopConf_from
    \/ Do_ChopConf_to_val
    \/ Do_CoolConf_from
    \/ Do_CoolConf_to_val
    \/ Do_PwmConf_from
    \/ Do_PwmConf_to_val

SpecCodec == InitCodec /\ [][NextCodec]_vars

(***************************************************************************)
(* The configuration structures.  g_conf, sw_mode, chop_conf, ihold_irun   *)
(* and pwm_conf are public fields of the driver whose own fields the       *)
(* caller assigns; update_* sends one of them to the chip.                 *)
(***************************************************************************)
\* assignments the caller is tried with: a field of each structure, set to
\* its value after `new` or to another one
FieldEdits ==
    [conf : {"g_conf"}, field : {"recalibrate"}, value : BOOLEAN]
    \cup [conf : {"sw_mode"}, field : {"en_softstop"}, value : BOOLEAN]
    \cup [conf : {"chop_conf"}, field : {"toff"}, value : {0, 3}]
    \cup [conf : {"ihold_irun"}, field : {"i_run"}, value : {31, 8}]
    \cup [conf : {"pwm_conf"}, field : {"pwm_ofs"}, value : {30, 0}]

\* `driver.g_conf.recalibrate = true` and the like
Do_assign_field ==
    \E c \in FieldEdits :
        /\ Idle
        /\ self' = [self EXCEPT ![c.conf][c.field] = c.value]
        /\ bus' = <<>>
        /\ ret' = [op |-> "assign_field", args |-> <<c>>, ok |-> TRUE,
                   err |-> "none", val |-> <<>>]
        /\ UNCHANGED <<cs, en_pin, codec>>

NextConf ==
    \/ Return
    \/ Do_assign_field
    \/ Do_update_sw_mode
    \/ Do_update_g_conf
    \/ Do_update_chop_conf
    \/ Do_update_ihold_irun
    \/ Do_update_pwm_conf

SpecConf == Init /\ [][NextConf]_vars

(***************************************************************************)
(* Properties.  `bus` holds what the call that `ret` describes did on the  *)
(* pins and the transport, in order.                                       *)
(***************************************************************************)
\* the chip-select and transport events of the call
BusIO == SelectSeq(bus, LAMBDA e : e.ev \in {"cs_low", "cs_high", "transfer"})
\* its address exchanges and its payload exchanges
AddrBytes == SelectSeq(bus, LAMBDA e : e.ev = "transfer" /\ Len(e.tx) = 1)
Payloads == SelectSeq(bus, LAMBDA e : e.ev = "transfer" /\ Len(e.tx) = 4)
\* its exchanges that failed
Failed == SelectSeq(bus, LAMBDA e : e.ev = "transfer" /\ ~e.ok)
\* its completed transactions
Completed == SelectSeq(bus, LAMBDA e : e.ev = "cs_high")

\* the 32-bit word that four bytes spell, most significant byte first
WordOf(b) == {k \in 0..31 : (b[4 - (k \div 8)] \div (2^(k % 8))) % 2 = 1}
\* the four bytes that spell a 32-bit word, most significant byte first
BytesOf(x) ==
    [i \in 1..4 |-> SumSet({2^k : k \in {j \in 0..7 : (8 * (4 - i) + j) \in x}})]

\* the status byte as section 3 of the specification lays it out
StatusBits(v) ==
    [ status_stop_r    |-> (v \div 128) % 2 = 1,
      status_stop_l    |-> (v \div 64) % 2 = 1,
      position_reached |-> (v \div 32) % 2 = 1,
      velocity_reached |-> (v \div 16) % 2 = 1,
      standstill       |-> (v \div 8) % 2 = 1,
      sg2              |-> (v \div 4) % 2 = 1,
      driver_error     |-> (v \div 2) % 2 = 1,
      reset_flag       |-> v % 2 = 1 ]

FrameShape == <<"cs_low", "transfer", "transfer", "cs_high">>

\* the calls that write the 32-bit value they are given to one register
WordSetters ==
    {"set_global_scaler", "set_tpowerdown", "set_tpwmthrs", "set_tcoolthrs",
     "set_a1", "set_v1", "set_amax", "set_vmax", "set_dmax", "set_d1",
     "set_vstart", "set_vstop", "set_pwm_auto"}

\* C1: a successful read_register makes exactly two read transactions for
\* the same address, back to back, and returns the status and the data of
\* the second one.
C1_ReadTwiceReturnsSecond ==
    (ret.op = "read_register" /\ ret.ok) =>
        LET a == Registers[ret.args[1]] IN
        /\ [i \in 1..Len(bus) |-> bus[i].ev] = FrameShape \o FrameShape
        /\ bus[2].tx = <<a % 128>> /\ bus[6].tx = <<a % 128>>
        /\ bus[3].tx = <<0, 0, 0, 0>> /\ bus[7].tx = <<0, 0, 0, 0>>
        /\ ret.val.data = WordOf(bus[7].rx)
        /\ ret.val.status = SpiStatus_from(bus[6].rx[1])

\* a read whose two transactions were answered differently
C1_Witness ==
    /\ ret.op = "read_register" /\ ret.ok
    /\ Len(bus) = 8
    /\ bus[2].rx = <<129>> /\ bus[3].rx = <<0, 0, 0, 1>>
    /\ bus[6].rx = <<72>> /\ bus[7].rx = <<0, 255, 255, 255>>
    /\ ret.val.data = 0..23

\* C2: once a public operation has returned, with Ok or with an error, the
\* chip-select line is high.
C2_CsHighAfterReturn == (ret.op # "none") => cs = "high"

\* C3: every transaction is chip-select low, one address byte, four payload
\* bytes, chip-select high; a read sends the address with bit 7 clear; a
\* write is a single transaction that sends the address with bit 7 set and
\* then the value's four bytes, most significant first.  A transaction is
\* cut short only by an exchange that fails, which ends the call.
C3_Framing ==
    (ret.op # "none") =>
        /\ \A i \in 1..Len(BusIO) :
            /\ BusIO[i].ev = FrameShape[((i - 1) % 4) + 1]
            /\ (i % 4 = 2) => Len(BusIO[i].tx) = 1
            /\ (i % 4 = 3) => Len(BusIO[i].tx) = 4
            /\ (BusIO[i].ev = "transfer" /\ ~BusIO[i].ok) => i = Len(BusIO)
        /\ (Len(BusIO) % 4 # 0) => ~BusIO[Len(BusIO)].ok
        /\ (ret.op = "read_register") =>
              \A i \in 1..Len(AddrBytes) :
                  AddrBytes[i].tx = <<Registers[ret.args[1]] % 128>>
        /\ (ret.op = "write_register") =>
              /\ Len(AddrBytes) <= 1
              /\ \A i \in 1..Len(AddrBytes) :
                    AddrBytes[i].tx = <<(Registers[ret.args[1]] % 128) + 128>>
              /\ \A i \in 1..Len(Payloads) : Payloads[i].tx = ret.args[2]
        /\ (ret.op \in WordSetters) =>
              /\ Len(AddrBytes) <= 1
              /\ \A i \in 1..Len(AddrBytes) : AddrBytes[i].tx[1] >= 128
              /\ \A i \in 1..Len(Payloads) :
                    Payloads[i].tx = BytesOf(ret.args[1])
        /\ (ret.op = "set_d1") =>
              \A i \in 1..Len(AddrBytes) :
                  AddrBytes[i].tx = <<(Registers["D_1"] % 128) + 128>>

\* a complete write of 0x01020304 to D1 (address 0x2A)
C3_Witness ==
    /\ ret.op = "set_d1" /\ ret.ok
    /\ [i \in 1..Len(bus) |-> bus[i].tx] = <<<<>>, <<170>>, <<1, 2, 3, 4>>, <<>>>>

\* C4: after a successful operation that made at least one transaction, the
\* cached status is the decoded status byte of its last transaction.
C4_StatusCachedAfterSuccess ==
    (ret.op # "none" /\ ret.ok /\ Len(AddrBytes) > 0) =>
        self.status = SpiStatus_from(AddrBytes[Len(AddrBytes)].rx[1])

\* C5: a failed exchange ends the operation with the transport's error, so
\* nothing follows it in the same call and it is not repeated; when the third
\* write of set_acceleration fails, the writes to AMAX and DMAX are complete
\* and D1 is never addressed.
C5_FailFast ==
    (ret.op # "none") =>
        /\ (Len(Failed) > 0) <=> (~ret.ok /\ ret.err = "Spi")
        /\ Len(Failed) <= 1
        /\ (Len(Failed) = 1) => ~bus[Len(bus)].ok
        /\ (ret.op = "set_acceleration" /\ ~ret.ok /\ Len(AddrBytes) = 3) =>
              /\ [i \in 1..3 |-> AddrBytes[i].tx[1]] =
                    <<Registers["AMAX"] + 128, Registers["DMAX"] + 128,
                      Registers["A_1"] + 128>>
              /\ Len(Completed) = 2
              /\ Len(Payloads) <= 3

\* set_acceleration fails in the payload exchange of its third write
C5_Witness ==
    /\ ret.op = "set_acceleration" /\ ~ret.ok /\ ret.err = "Spi"
    /\ Len(AddrBytes) = 3 /\ Len(Payloads) = 3
    /\ ~bus[Len(bus)].ok

\* C6: stop drives the enable pin before any transaction, then writes zero
\* to VSTART and zero to VMAX; if the pin cannot be driven there is no
\* transaction at all.
C6_StopWritesZeros ==
    (ret.op = "stop") =>
        /\ \A i \in 1..Len(bus) : (bus[i].ev \in {"en_low", "en_high"}) => i = 1
        /\ (ret.err = "PinError") => Len(BusIO) = 0
        /\ ret.ok =>
              /\ [i \in 1..Len(AddrBytes) |-> AddrBytes[i].tx[1]] =
                    <<Registers["VSTART"] + 128, Registers["VMAX"] + 128>>
              /\ [i \in 1..Len(Payloads) |-> Payloads[i].tx] =
                    <<<<0, 0, 0, 0>>, <<0, 0, 0, 0>>>>

\* C7: clear_g_stat makes one write, to GSTAT (address byte 0x81), of the
\* value 0x00000007.
C7_ClearGStatWritesGStat ==
    (ret.op = "clear_g_stat" /\ ret.ok) =>
        /\ [i \in 1..Len(AddrBytes) |-> AddrBytes[i].tx] = <<<<129>>>>
        /\ [i \in 1..Len(Payloads) |-> Payloads[i].tx] = <<<<0, 0, 0, 7>>>>

\* C8: get_velocity reads VACTUAL as a 24-bit two's-complement number: with
\* bit 23 clear the result is raw / microsteps, with bit 23 set it is
\* (raw - 2^24) / microsteps, which is negative.
C8_VelocitySign ==
    (ret.op = "get_velocity" /\ ret.ok) =>
        LET raw == SumSet({2^k : k \in WordOf(Payloads[2].rx)}) IN
        /\ ret.val.den = self._step_count
        /\ ret.val.num = IF 23 \in WordOf(Payloads[2].rx)
                         THEN raw - 16777216 ELSE raw

(***************************************************************************)
(* Properties of the codecs.                                               *)
(***************************************************************************)
\* C9: the status byte decodes bit 7 as stop-right, then stop-left,
\* position-reached, velocity-reached, standstill, stall-guard, driver-error
\* and bit 0 as reset-flag, for every byte.
C9_StatusDecode ==
    (codec.ty = "SpiStatus" /\ codec.step = "decoded") =>
        codec.mid = StatusBits(codec.in)

RoundTripTypes ==
    {"GConf", "DrvConf", "IHoldIRun", "SwMode", "RampStat", "EncMode",
     "PwmConf"}

\* C10: for GConf, DrvConf, IHoldIRun, SwMode, RampStat, EncMode and PwmConf,
\* decoding the encoding of a field set within its widths gives the field set
\* back, and encoding the decoding of a word gives the word with its reserved
\* bits cleared.
C10_RoundTrip ==
    (codec.ty \in RoundTripTypes) =>
        /\ (codec.step = "redecoded") => codec.out = codec.in
        /\ (codec.step = "reencoded") =>
              codec.out = codec.in \cap DefinedBits(Layouts[codec.ty])

\* a DrvConf word with every bit set has lost its reserved bits
C10_Witness ==
    /\ codec.ty = "DrvConf" /\ codec.step = "reencoded"
    /\ codec.in = 0..31 /\ codec.out # codec.in

\* C11: a ChopConf field set within its widths, disfdcc = true included,
\* decodes from its encoding unchanged.
C11_ChopConfRoundTrip ==
    (codec.ty = "ChopConf" /\ codec.step = "redecoded") =>
        codec.out = codec.in

\* C12: a CoolConf field set within its widths decodes from its encoding
\* unchanged, seimin and sgt included whatever semin is.
C12_CoolConfRoundTrip ==
    (codec.ty = "CoolConf" /\ codec.step = "redecoded") =>
        codec.out = codec.in

\* C13: every register's address is at most 0x7F, and two different
\* registers have different addresses, different read bytes (addr & 0x7F)
\* and different write bytes (addr | 0x80).
C13_AddressesDistinct ==
    (codec.ty = "Registers" /\ codec.step = "addressed") =>
        LET a == codec.mid[1]
            b == codec.mid[2]
        IN  /\ a \in 0..127
            /\ (codec.in[1] # codec.in[2]) =>
                  /\ a # b
                  /\ a % 128 # b % 128
                  /\ (a % 128) + 128 # (b % 128) + 128

\* RAMPMODE (0x20) and MSLUT_0_7 (0x60), which differ in one high bit
C13_Witness ==
    /\ codec.ty = "Registers" /\ codec.step = "addressed"
    /\ codec.in = <<"RAMPMODE", "MSLUT_0_7">>
    /\ codec.mid = <<32, 96>>

\* C14: the default ChopConf encodes to 0x10410150, the default PwmConf to
\* 0xC40C001E, and IHoldIRun::new() is i_hold = 16, i_run = 31,
\* i_hold_delay = 0, which encodes to 0x00001F10; none is all-zero.
C14_Defaults ==
    /\ (codec.ty = "IHoldIRun" /\ codec.step \in {"built", "default_encoded"})
          => codec.in = [i_hold |-> 16, i_run |-> 31, i_hold_delay |-> 0]
    /\ (codec.step = "default_encoded") =>
          /\ codec.mid # {}
          /\ (codec.ty = "ChopConf") => codec.mid = {28, 22, 16, 8, 6, 4}
          /\ (codec.ty = "PwmConf") =>
                codec.mid = {31, 30, 26, 19, 18, 4, 3, 2, 1}
          /\ (codec.ty = "IHoldIRun") => codec.mid = {12, 11, 10, 9, 8, 4}

\* the default ChopConf has been built and encoded
C14_Witness ==
    /\ codec.ty = "ChopConf" /\ codec.step = "default_encoded"
    /\ codec.in.hstr = 5 /\ codec.in.intpol
    /\ 28 \in codec.mid

(***************************************************************************)
(* Properties of the motion calls and the pins.                            *)
(***************************************************************************)
\* the word holding the natural n (n < 2^31)
BitsOf(n) == {k \in 0..30 : (n \div (2^k)) % 2 = 1}
\* the 32-bit two's-complement word of the integer v
TwosComplement(v) == IF v >= 0 THEN BitsOf(v) ELSE (0..31) \ BitsOf(-v - 1)

\* hz / (clock / 2^24) * microsteps truncated toward zero, worked out by hand
\* for the frequencies, clocks and step counts the calls are tried with
VmaxRaw(hz, clock, microsteps) ==
    CASE hz = 1000 /\ clock = 12000000 /\ microsteps = 256 -> 357913
      [] hz = 2000 /\ clock = 12000000 /\ microsteps = 256 -> 715827
      [] hz = 1000 /\ clock = 12000000 /\ microsteps = 16 -> 22369
      [] hz = 2000 /\ clock = 12000000 /\ microsteps = 16 -> 44739
      [] hz = 1000 /\ clock = 16000000 /\ microsteps = 256 -> 268435
      [] hz = 2000 /\ clock = 16000000 /\ microsteps = 256 -> 536870
      [] hz = 1000 /\ clock = 16000000 /\ microsteps = 16 -> 16777
      [] hz = 2000 /\ clock = 16000000 /\ microsteps = 16 -> 33554

\* a / clock^2 * (512 * 256) * 2^24 * microsteps truncated toward zero, worked
\* out by hand in the same way
AmaxRaw(a, clock, microsteps) ==
    CASE a = 1000 /\ clock = 12000000 /\ microsteps = 256 -> 3909
      [] a = 5000 /\ clock = 12000000 /\ microsteps = 256 -> 19546
      [] a = 1000 /\ clock = 12000000 /\ microsteps = 16 -> 244
      [] a = 5000 /\ clock = 12000000 /\ microsteps = 16 -> 1221
      [] a = 1000 /\ clock = 16000000 /\ microsteps = 256 -> 2199
      [] a = 5000 /\ clock = 16000000 /\ microsteps = 256 -> 10995
      [] a = 1000 /\ clock = 16000000 /\ microsteps = 16 -> 137
      [] a = 5000 /\ clock = 16000000 /\ microsteps = 16 -> 687

EnEvents == {"en_low", "en_high"}

\* C15: set_velocity(hz) stores hz as the cached max velocity and makes one
\* write, to VMAX (0x27), of hz / (clock / 2^24) * microsteps truncated
\* toward zero; with the default clock and step count set_velocity(1000)
\* writes 357913.
C15_SetVelocity ==
    (ret.op = "set_velocity") =>
        /\ Len(AddrBytes) <= 1
        /\ \A i \in 1..Len(AddrBytes) : AddrBytes[i].tx = <<167>>
        /\ \A i \in 1..Len(Payloads) :
              Payloads[i].tx =
                  BytesOf(BitsOf(VmaxRaw(ret.args[1], self._clock,
                                         self._step_count)))
        /\ ret.ok => (self.v_max = ret.args[1] /\ Len(Payloads) = 1)

\* set_velocity(1000) with the default clock and step count writes
\* 357913 = 0x00057619
C15_Witness ==
    /\ ret.op = "set_velocity" /\ ret.ok /\ ret.args = <<1000>>
    /\ self._clock = 12000000 /\ self._step_count = 256
    /\ self.v_max = 1000
    /\ Payloads[1].tx = <<0, 5, 118, 25>>

\* C16: a successful set_acceleration makes four writes, one to each of A1
\* (0x24), AMAX (0x26), DMAX (0x28) and D1 (0x2A), and each of them sends
\* the same converted value.
C16_SameValueToFour ==
    (ret.op = "set_acceleration" /\ ret.ok) =>
        /\ Len(AddrBytes) = 4
        /\ {AddrBytes[i].tx[1] : i \in 1..4} = {164, 166, 168, 170}
        /\ \A i \in 1..Len(Payloads) :
              Payloads[i].tx =
                  BytesOf(BitsOf(AmaxRaw(ret.args[1], self._clock,
                                         self._step_count)))

\* C17: move_to drives the enable pin to its enabled level first and then
\* makes one write, to XTARGET (0x2D), of target * microsteps as a 32-bit
\* two's-complement value, most significant byte first; if the pin cannot be
\* driven the call returns the pin error and there is no transaction.
C17_MoveTo ==
    (ret.op = "move_to") =>
        /\ \A i \in 1..Len(bus) : (bus[i].ev \in EnEvents) => i = 1
        /\ self.en =>
              /\ Len(bus) >= 1
              /\ bus[1].ev = IF self._en_inverted THEN "en_high" ELSE "en_low"
              /\ bus[1].ok <=> ~(ret.err = "PinError")
              /\ bus[1].ok =>
                    en_pin = IF self._en_inverted THEN "high" ELSE "low"
        /\ ~self.en => \A i \in 1..Len(bus) : bus[i].ev \notin EnEvents
        /\ (ret.err = "PinError") => (~ret.ok /\ Len(BusIO) = 0)
        /\ Len(AddrBytes) <= 1
        /\ \A i \in 1..Len(AddrBytes) : AddrBytes[i].tx = <<173>>
        /\ \A i \in 1..Len(Payloads) :
              Payloads[i].tx =
                  BytesOf(TwosComplement(ret.args[1] * self._step_count))
        /\ ret.ok => Len(Payloads) = 1

\* move_to(-100) with an enable pin and 256 microsteps: the pin goes low and
\* -25600 = 0xFFFF9C00 is written
C17_Witness ==
    /\ ret.op = "move_to" /\ ret.ok /\ ret.args = <<-100>>
    /\ self.en /\ ~self._en_inverted /\ self._step_count = 256
    /\ en_pin = "low"
    /\ bus[1].ev = "en_low"
    /\ Payloads[1].tx = <<255, 255, 156, 0>>

\* C18: enable and disable make no bus exchange and leave chip-select alone;
\* without an enable pin they succeed and change nothing; with one, enable
\* drives it low and disable drives it high, or the opposite levels when the
\* inverted flag is set.
C18_EnableDisable ==
    [][(ret.op = "none" /\ ret'.op \in {"enable", "disable"}) =>
        LET on == IF self._en_inverted THEN "high" ELSE "low"
            off == IF self._en_inverted THEN "low" ELSE "high"
            level == IF ret'.op = "enable" THEN on ELSE off
        IN  /\ cs' = cs
            /\ self' = self
            /\ \A i \in 1..Len(bus') : bus'[i].ev \in EnEvents
            /\ ~self.en => (ret'.ok /\ bus' = <<>> /\ en_pin' = en_pin)
            /\ self.en =>
                  /\ Len(bus') = 1
                  /\ bus'[1].ev = "en_" \o level
                  /\ bus'[1].ok => (ret'.ok /\ en_pin' = level)
                  /\ ~bus'[1].ok =>
                        (~ret'.ok /\ ret'.err = "PinError"
                         /\ en_pin' = en_pin)]_vars

\* disable with an inverted enable pin has driven the pin low
C18_Witness ==
    /\ ret.op = "disable" /\ ret.ok
    /\ self.en /\ self._en_inverted
    /\ Len(bus) = 1 /\ bus[1].ev = "en_low" /\ bus[1].ok
    /\ en_pin = "low"

\* C19: in a register read or write, a chip-select pin that cannot be driven
\* makes the call fail with the pin error, and a failed exchange makes it
\* fail with the bus error.
C19_NoFailureIgnored ==
    (ret.op \in {"read_register", "write_register"}) =>
        /\ (\E i \in 1..Len(bus) :
                bus[i].ev \in {"cs_low", "cs_high"} /\ ~bus[i].ok)
              => (~ret.ok /\ ret.err = "PinError")
        /\ (Len(Failed) > 0) => (~ret.ok /\ ret.err = "Spi")

\* C20: is_at_limit_r and is_at_limit_l read RAMP_STAT (0x35) twice and
\* return the stop event flag of their side: event_stop_r (bit 5) for the
\* right, event_stop_l (bit 4) for the left.
C20_LimitIsStopEvent ==
    (ret.op \in {"is_at_limit_r", "is_at_limit_l"} /\ ret.ok) =>
        /\ [i \in 1..Len(AddrBytes) |-> AddrBytes[i].tx] = <<<<53>>, <<53>>>>
        /\ ret.val = ((IF ret.op = "is_at_limit_r" THEN 5 ELSE 4)
                          \in WordOf(Payloads[2].rx))

\* C21: set_rampmode writes the number of the ramp mode (0..3) to RAMPMODE
\* (address byte 0x20 | 0x80) and addresses no other register.
C21_RampmodeWritesRampmode ==
    (ret.op = "set_rampmode") =>
        /\ \A i \in 1..Len(AddrBytes) :
              AddrBytes[i].tx = <<Registers["RAMPMODE"] + 128>>
        /\ ret.ok =>
              [i \in 1..Len(Payloads) |-> Payloads[i].tx] =
                  <<<<0, 0, 0, ret.args[1]>>>>

\* the register each commit call writes and the encoding of its structure
CommitReg ==
    [ update_g_conf |-> "GCONF", update_sw_mode |-> "SW_MODE",
      update_chop_conf |-> "CHOPCONF", update_ihold_irun |-> "IHOLD_IRUN",
      update_pwm_conf |-> "PWMCONF" ]
CommitWord(op, drv) ==
    CASE op = "update_g_conf" -> GConf_to_val(drv.g_conf)
      [] op = "update_sw_mode" -> SwMode_to_val(drv.sw_mode)
      [] op = "update_chop_conf" -> ChopConf_to_val(drv.chop_conf)
      [] op = "update_ihold_irun" -> IHoldIRun_to_val(drv.ihold_irun)
      [] op = "update_pwm_conf" -> PwmConf_to_val(drv.pwm_conf)
\* the five configuration structures of the driver
Confs(drv) ==
    <<drv.g_conf, drv.sw_mode, drv.chop_conf, drv.ihold_irun, drv.pwm_conf>>

\* C22: assigning a field of g_conf, sw_mode, chop_conf, ihold_irun or
\* pwm_conf makes no bus transaction; an update_* call makes exactly one write,
\* to the register of its structure, of the bytes of the structure's encoding
\* at the time of the call, and leaves all five structures as they were
\* whatever the chip answers.
C22_NoAutoCommit ==
    [][ /\ (ret'.op = "assign_field") => (bus' = <<>> /\ cs' = cs)
        /\ (ret'.op \in DOMAIN CommitReg) =>
              /\ Confs(self') = Confs(self)
              /\ Len(AddrBytes') = 1
              /\ AddrBytes'[1].tx = <<Registers[CommitReg[ret'.op]] + 128>>
              /\ Len(Payloads') <= 1
              /\ ret'.ok =>
                    /\ Len(Payloads') = 1 /\ Len(Completed') = 1
                    /\ Payloads'[1].tx = BytesOf(CommitWord(ret'.op, self))
      ]_vars

\* update_g_conf after recalibrate was set: one write of 0x0000001D to GCONF,
\* answered by the chip with other bytes, the structure still as assigned
C22_Witness ==
    /\ ret.op = "update_g_conf" /\ ret.ok
    /\ self.g_conf.recalibrate /\ self.g_conf = [GConf_new EXCEPT !.recalibrate = TRUE]
    /\ [i \in 1..Len(AddrBytes) |-> AddrBytes[i].tx] = <<<<128>>>>
    /\ [i \in 1..Len(Payloads) |-> Payloads[i].tx] = <<<<0, 0, 0, 29>>>>
    /\ Payloads[1].rx # Payloads[1].tx

\* C23: set_home writes zero to XACTUAL (0x21) and then zero to XTARGET
\* (0x2D), as two write transactions in that order, and on success the cached
\* status is the status byte of the second write.
C23_SetHomeWritesZeros ==
    (ret.op = "set_home" /\ ret.ok) =>
        /\ [i \in 1..Len(AddrBytes) |-> AddrBytes[i].tx[1]] =
              <<Registers["XACTUAL"] + 128, Registers["XTARGET"] + 128>>
        /\ [i \in 1..Len(Payloads) |-> Payloads[i].tx] =
              <<<<0, 0, 0, 0>>, <<0, 0, 0, 0>>>>
        /\ Len(Completed) = 2
        /\ self.status = SpiStatus_from(AddrBytes[2].rx[1])

\* C24: when a call returns an error, from the transport or from a pin, the
\* cached status is what it was when the call started: the cache is assigned
\* only after the last transaction of the call has succeeded.
C24_StatusKeptOnError ==
    [][(ret.op = "none" /\ ret'.op # "none" /\ ~ret'.ok) =>
            self'.status = self.status]_vars

\* set_acceleration fails in its third write after two complete writes whose
\* status byte is not the cached status
C24_Witness ==
    /\ ret.op = "set_acceleration" /\ ~ret.ok
    /\ Len(Completed) = 2 /\ Len(AddrBytes) = 3
    /\ AddrBytes[1].ok /\ AddrBytes[2].ok
    /\ self.status # SpiStatus_from(AddrBytes[1].rx[1])
    /\ self.status # SpiStatus_from(AddrBytes[2].rx[1])

\* C25: set_velocity assigns the cached max velocity before the write, so
\* when the VMAX write fails the cache already holds the requested value and
\* keeps it; get_velocity_max then reports the cached value divided by 400
\* and makes no bus transaction.
C25_VmaxNotRolledBack ==
    [][ /\ (ret'.op = "set_velocity" /\ ~ret'.ok) =>
              (ret'.err = "Spi" /\ self'.v_max = ret'.args[1])
        /\ (ret'.op = "none") => self'.v_max = self.v_max
        /\ (ret'.op = "get_velocity_max") =>
              /\ ret'.ok /\ bus' = <<>> /\ cs' = cs /\ self' = self
              /\ ret'.val = [num |-> self.v_max, den |-> 400]
      ]_vars

\* set_velocity(2000) fails in its VMAX write and the cache holds 2000
C25_Witness ==
    /\ ret.op = "set_velocity" /\ ~ret.ok /\ ret.err = "Spi"
    /\ ret.args = <<2000>> /\ self.v_max = 2000
    /\ Len(Failed) = 1 /\ Len(Completed) = 0

\* C26: the encoder of the status byte is the inverse of its decoder: every
\* byte decodes and encodes back to itself, and each of the eight flags is
\* encoded at its own bit, from bit 7 for stop-right down to bit 0 for
\* reset-flag.
C26_StatusEncodeInverse ==
    (codec.ty = "SpiStatus") =>
        /\ (codec.step = "reencoded") => codec.out = codec.in
        /\ (codec.step = "encoded") => StatusBits(codec.mid) = codec.in

====
